---- MODULE Spec2Model ----
(***************************************************************************)
(* pnp_x: realtime X/Twitter mentions indexer (NestJS).                    *)
(*                                                                         *)
(* State machine of MentionsService (store-backed build in                 *)
(* src/src/mentions/mentions.controller.ts, file-backed build in           *)
(* src/unnamed/part_003), of the two persistence sinks and of the pure     *)
(* URL helpers.  Strings are tuples of one-character strings so that the   *)
(* regular expressions and the URL parsing are computed, not assumed.      *)
(***************************************************************************)
EXTENDS Integers, Sequences, FiniteSets, TLC

VARIABLES
  cred,      \* TWITTER_BEARER_TOKEN is configured
  phase,     \* "boot" | "running" | "fatal"
  variant,   \* "store" (mentions.controller.ts) | "file" (part_003)
  avail,     \* indices of Items the search capability may return
  filtered,  \* per available item: what the filter and the augmentation make of it
  sinceId,   \* MentionsService.sinceId (Undef = undefined)
  rows,      \* twitter_data table, in row-id order
  doc,       \* the JSON document at OUTPUT_PATH
  ops,       \* number of handler invocations so far
  last,      \* what the most recent handler invocation did
  persisted, \* every (handler invocation, mention id) written to a sink so far
  honest,    \* every poll search so far returned only ids above its since_id
  call,      \* orchestrator run: the arguments and the API behaviour of one call
  ret,       \* orchestrator run: what searchMentions returned
  spc,       \* orchestrator run: "idle" | "ready" | "done"
  cand,      \* extractor run: the candidate, as scheme/host/path parts
  pda,       \* extractor run: value returned by extractMarketPDA
  xpc,       \* extractor run: "idle" | "ready" | "done"
  pollEnabled, \* MENTIONS_POLL_ENABLED (Undef = not set)
  cronEnabled, \* MENTIONS_CRON_ENABLED (Undef = not set)
  cyc        \* overlapping poll cycles: where each invocation stands

vars == <<cred, phase, variant, avail, filtered, sinceId, rows, doc, ops, last, persisted,
          honest, call, ret, spc, cand, pda, xpc, pollEnabled, cronEnabled, cyc>>

\* the configuration and the positions of overlapping poll cycles, which most
\* steps leave alone
settings == <<pollEnabled, cronEnabled, cyc>>

(***************************************************************************)
(* Characters and strings                                                  *)
(***************************************************************************)
Undef == << >>

UpperChars ==
  <<"A","B","C","D","E","F","G","H","I","J","K","L","M",
    "N","O","P","Q","R","S","T","U","V","W","X","Y","Z">>
LowerChars ==
  <<"a","b","c","d","e","f","g","h","i","j","k","l","m",
    "n","o","p","q","r","s","t","u","v","w","x","y","z">>
DigitChars == <<"0","1","2","3","4","5","6","7","8","9">>

Range(s) == {s[i] : i \in DOMAIN s}
UpperSet == Range(UpperChars)
LowerSet == Range(LowerChars)
DigitSet == Range(DigitChars)
LowerOf == [c \in UpperSet |-> LowerChars[CHOOSE i \in DOMAIN UpperChars : UpperChars[i] = c]]

IsUpper(c) == c \in UpperSet
IsLower(c) == c \in LowerSet
IsDigit(c) == c \in DigitSet
IsAlpha(c) == IsUpper(c) \/ IsLower(c)
\* [A-Za-z0-9]
IsAlnum(c) == IsAlpha(c) \/ IsDigit(c)
\* [A-Za-z0-9-_]
IsSegChar(c) == IsAlnum(c) \/ c \in {"-", "_"}

ToLowerChar(c) == IF IsUpper(c) THEN LowerOf[c] ELSE c
ToLower(s) == [i \in DOMAIN s |-> ToLowerChar(s[i])]

MinOf(S) == CHOOSE x \in S : \A y \in S : x <= y
MaxOf(S) == CHOOSE x \in S : \A y \in S : y <= x

\* first index >= from whose character is in set, Len(s)+1 when there is none
FindFirst(s, from, set) ==
  LET I == {i \in from..Len(s) : s[i] \in set}
  IN IF I = {} THEN Len(s) + 1 ELSE MinOf(I)

\* last index whose character is in set, 0 when there is none
FindLast(s, set) ==
  LET I == {i \in 1..Len(s) : s[i] \in set}
  IN IF I = {} THEN 0 ELSE MaxOf(I)

\* String.prototype.startsWith (case-sensitive)
StartsWith(s, p) == Len(s) >= Len(p) /\ SubSeq(s, 1, Len(p)) = p

\* the literal lit occurs in s at position i, ignoring case (regex flag i)
LitAtCI(s, i, lit) ==
  /\ i + Len(lit) - 1 <= Len(s)
  /\ ToLower(SubSeq(s, i, i + Len(lit) - 1)) = ToLower(lit)

sHttp == <<"h","t","t","p">>
sS == <<"s">>
sColonSlashSlash == <<":","/","/">>
sHttpsPrefix == <<"h","t","t","p","s",":","/","/">>
sWww == <<"w","w","w",".">>
sDomain == <<"p","n","p",".","e","x","c","h","a","n","g","e">>
sSlash == <<"/">>

(***************************************************************************)
(* URL Pattern Extractor                                                   *)
(***************************************************************************)
\* /https?:\/\/(?:www\.)?pnp\.exchange\/[A-Za-z0-9][A-Za-z0-9-_]*/i, RegExp.test:
\* unanchored, so the pattern may start at any position i of s
PnpLinkRe(s) ==
  \E i \in 1..Len(s), withS \in BOOLEAN, withWww \in BOOLEAN :
    LET lit == sHttp \o (IF withS THEN sS ELSE << >>) \o sColonSlashSlash
                 \o (IF withWww THEN sWww ELSE << >>) \o sDomain \o sSlash
    IN /\ LitAtCI(s, i, lit)
       /\ i + Len(lit) <= Len(s)
       /\ IsAlnum(s[i + Len(lit)])

\* String.prototype.trim of (s || '')
RECURSIVE TrimLeft(_)
TrimLeft(s) == IF s # << >> /\ Head(s) = " " THEN TrimLeft(Tail(s)) ELSE s
RECURSIVE TrimRight(_)
TrimRight(s) ==
  IF s # << >> /\ s[Len(s)] = " " THEN TrimRight(SubSeq(s, 1, Len(s) - 1)) ELSE s
normalizeString(s) == TrimRight(TrimLeft(s))

hasPnpMarketUrlInText(text) ==
  LET t == normalizeString(text)
  IN IF t = << >> THEN FALSE ELSE PnpLinkRe(t)

(* new URL(normalized): the WHATWG parser without a base URL, for the part  *)
(* the extractor reads (hostname, pathname).  Modelled: surrounding spaces  *)
(* stripped; a scheme "alpha (alnum|+|-|.)* :" is required; for http/https  *)
(* the slashes after the colon are skipped, the authority ends at / \ ? #,  *)
(* userinfo and port are cut off, the host is lower-cased and must be       *)
(* non-empty without forbidden characters; the path ends at ? or #, an      *)
(* empty path is "/", a space in it is percent-encoded.  Any other scheme   *)
(* has an opaque host after "//" and an empty host otherwise.  Dot segments *)
(* and IDNA are outside the candidates explored.                            *)
UrlFail == [ok |-> FALSE, hostname |-> << >>, pathname |-> << >>]

SpecialSchemes == {sHttp, sHttp \o sS}
ForbiddenHostChars == {" ", "#", "%", "/", ":", "?", "@", "[", "]", "<", ">", "^", "|", "\\"}

RECURSIVE EncodePath(_)
EncodePath(p) ==
  IF p = << >> THEN << >>
  ELSE (IF Head(p) = " " THEN <<"%", "2", "0">>
        ELSE IF Head(p) = "\\" THEN <<"/">>
        ELSE <<Head(p)>>) \o EncodePath(Tail(p))

\* host[:port] with optional userinfo@ in front
SplitAuthority(authority) ==
  LET at == FindLast(authority, {"@"})
      hostport == SubSeq(authority, at + 1, Len(authority))
      colon == FindLast(hostport, {":"})
      host == IF colon = 0 THEN hostport ELSE SubSeq(hostport, 1, colon - 1)
      port == IF colon = 0 THEN << >> ELSE SubSeq(hostport, colon + 1, Len(hostport))
  IN [host |-> host,
      ok |-> /\ host # << >>
             /\ \A i \in DOMAIN port : IsDigit(port[i])
             /\ \A i \in DOMAIN host : host[i] \notin ForbiddenHostChars]

ParseSpecial(n, c) ==
  LET nonSlash == {i \in (c + 1)..Len(n) : n[i] \notin {"/", "\\"}}
      start == IF nonSlash = {} THEN Len(n) + 1 ELSE MinOf(nonSlash)
      authEnd == FindFirst(n, start, {"/", "\\", "?", "#"})
      auth == SplitAuthority(SubSeq(n, start, authEnd - 1))
      pathEnd == FindFirst(n, authEnd, {"?", "#"})
      rawPath == SubSeq(n, authEnd, pathEnd - 1)
  IN IF ~auth.ok THEN UrlFail
     ELSE [ok |-> TRUE,
           hostname |-> ToLower(auth.host),
           pathname |-> IF rawPath = << >> THEN sSlash ELSE EncodePath(rawPath)]

ParseNonSpecial(n, c) ==
  IF LitAtCI(n, c + 1, <<"/", "/">>)
  THEN LET authEnd == FindFirst(n, c + 3, {"/", "?", "#"})
           auth == SplitAuthority(SubSeq(n, c + 3, authEnd - 1))
           pathEnd == FindFirst(n, authEnd, {"?", "#"})
       IN IF auth.host # << >> /\ ~auth.ok THEN UrlFail
          ELSE [ok |-> TRUE, hostname |-> auth.host,
                pathname |-> SubSeq(n, authEnd, pathEnd - 1)]
  ELSE [ok |-> TRUE, hostname |-> << >>,
        pathname |-> SubSeq(n, c + 1, FindFirst(n, c + 1, {"?", "#"}) - 1)]

ParseURL(raw) ==
  LET n == TrimRight(TrimLeft(raw))
      c == FindFirst(n, 1, {":"})
      schemeOk == /\ c <= Len(n)
                  /\ c > 1
                  /\ IsAlpha(n[1])
                  /\ \A i \in 2..(c - 1) : IsAlnum(n[i]) \/ n[i] \in {"+", "-", "."}
  IN IF ~schemeOk THEN UrlFail
     ELSE IF ToLower(SubSeq(n, 1, c - 1)) \in SpecialSchemes
          THEN ParseSpecial(n, c)
          ELSE ParseNonSpecial(n, c)

\* /^(?:www\.)?pnp\.exchange$/i
HostRe(hostname) == ToLower(hostname) \in {sDomain, sWww \o sDomain}

\* /^[A-Za-z0-9][A-Za-z0-9-_]*$/
SegRe(seg) ==
  /\ seg # << >>
  /\ IsAlnum(seg[1])
  /\ \A i \in DOMAIN seg : IsSegChar(seg[i])

\* path.replace(/^\//, '').split('/')[0]
FirstSegment(path) ==
  LET p == IF path # << >> /\ Head(path) = "/" THEN Tail(path) ELSE path
  IN SubSeq(p, 1, FindFirst(p, 1, {"/"}) - 1)

\* `rawUrl.startsWith('http') ? rawUrl : "https://" + rawUrl`
NormalizeUrl(rawUrl) ==
  IF StartsWith(rawUrl, sHttp) THEN rawUrl ELSE sHttpsPrefix \o rawUrl

extractMarketPDA(rawUrl) ==
  IF rawUrl = << >> THEN Undef
  ELSE LET u == ParseURL(NormalizeUrl(rawUrl))
       IN IF ~u.ok THEN Undef
          ELSE IF ~HostRe(u.hostname) THEN Undef
          ELSE LET seg == FirstSegment(u.pathname)
               IN IF seg = << >> THEN Undef
                  ELSE IF ~SegRe(seg) THEN Undef
                  ELSE seg

(***************************************************************************)
(* Mention Filter                                                          *)
(***************************************************************************)
\* u?.expanded_url || u?.url || u?.display_url || ''
ResolvableUrl(u) ==
  IF u.expanded_url # << >> THEN u.expanded_url
  ELSE IF u.url # << >> THEN u.url
  ELSE u.display_url

\* tweet.entities is "none" (undefined), "ok" (urls is an array) or "bad" (urls
\* is not an array: urls.map is not a function, a TypeError)
FilterThrows(tweet) == tweet.entities = "bad"

\* faulty variant: any item that carries a link entity is accepted
AnyLinkEntity(tweet) == tweet.entities = "ok" /\ Len(tweet.urls) > 0

\* lines 194-199
hasPnpMarketLink(tweet) ==
  LET urls == IF tweet.entities = "ok"
              THEN {ResolvableUrl(tweet.urls[k]) : k \in DOMAIN tweet.urls} \ {<< >>}
              ELSE {}
  IN IF \E u \in urls : PnpLinkRe(u) THEN TRUE
     ELSE hasPnpMarketUrlInText(tweet.text)

(***************************************************************************)
(* Raw search results the platform may serve                               *)
(***************************************************************************)
tGm == <<"g", "m">>
tTextLink == <<"g", "o", " ">> \o sHttp \o sColonSlashSlash \o sWww \o sDomain
               \o <<"/", "A", "b">>
uTco == sHttpsPrefix \o <<"t", ".", "c", "o", "/", "a">>
dTco == <<"t", ".", "c", "o", "/", "a">>
uM1 == sHttpsPrefix \o sDomain \o <<"/", "M", "1">>
dM1 == sDomain \o <<"/", "M", "1">>
uUpper == <<"H", "T", "T", "P", "S">> \o sColonSlashSlash \o sDomain \o <<"/", "M", "2">>
dM2 == sDomain \o <<"/", "M", "2">>
uBang == sHttpsPrefix \o sDomain \o <<"/", "M", "!">>

\* TweetV2 items in the order the platform created them (index = age rank):
\*  1 a link to another site          2 an expanded pnp.exchange link
\*  3 no entities, the link in text   4 only a scheme-less display_url
\*  5 entities.urls not an array      6 an upper-case scheme
\*  7 an identifier that is no numeral 8 a numeric one, newer still
Items ==
  << [id |-> <<"7">>, entities |-> "ok", text |-> tGm,
      urls |-> <<[expanded_url |-> uTco, url |-> uTco, display_url |-> dTco]>>],
     [id |-> <<"8">>, entities |-> "ok", text |-> tGm,
      urls |-> <<[expanded_url |-> uM1, url |-> uTco, display_url |-> dM1]>>],
     [id |-> <<"9">>, entities |-> "none", text |-> tTextLink, urls |-> << >>],
     [id |-> <<"1", "0">>, entities |-> "ok", text |-> tGm,
      urls |-> <<[expanded_url |-> << >>, url |-> << >>, display_url |-> dM1]>>],
     [id |-> <<"1", "1">>, entities |-> "bad", text |-> tGm, urls |-> << >>],
     [id |-> <<"1", "2">>, entities |-> "ok", text |-> tGm,
      urls |-> <<[expanded_url |-> uUpper, url |-> uTco, display_url |-> dM2]>>],
     [id |-> <<"x">>, entities |-> "ok", text |-> tGm,
      urls |-> <<[expanded_url |-> uM1, url |-> uTco, display_url |-> dM1]>>],
     [id |-> <<"1", "3">>, entities |-> "none", text |-> tTextLink, urls |-> << >>],
     [id |-> <<"1", "4">>, entities |-> "ok", text |-> tGm,
      urls |-> <<[expanded_url |-> uBang, url |-> uTco, display_url |-> dM1]>>] >>

\* BigInt(s) throws a SyntaxError unless s is a decimal numeral (BigInt("") is 0n)
BigIntThrows(s) == \E i \in DOMAIN s : ~IsDigit(s[i])
DigitVal(c) == (CHOOSE i \in DOMAIN DigitChars : DigitChars[i] = c) - 1
RECURSIVE BigInt(_)
BigInt(s) ==
  IF s = << >> THEN 0
  ELSE 10 * BigInt(SubSeq(s, 1, Len(s) - 1)) + DigitVal(s[Len(s)])

NumericItems == {i \in DOMAIN Items : ~BigIntThrows(Items[i].id)}

\* bounds of the exploration
MaxLen == 2     \* items one search yields at most
PageSize == 1   \* items per page (maxResults, scaled down)
MaxOps == 2     \* handler invocations after startup

RECURSIVE NewestFirst(_)
NewestFirst(S) ==
  IF S = {} THEN << >> ELSE <<MaxOf(S)>> \o NewestFirst(S \ {MaxOf(S)})

\* what twitter.v2.search may yield: any MaxLen of the available items, newest first
SearchResults == {NewestFirst(S) : S \in {T \in SUBSET avail : Cardinality(T) <= MaxLen}}

\* error.code 429, a message with "400"/"Invalid Request", anything else
ErrKinds == {"429", "400", "other"}

\* one call of twitter.v2.search and the iteration of its paginator: res is what
\* it yields, in order; failAt the number of items yielded before the API throws
\* err (-1: it never throws; 0: the initial call throws; k*PageSize: the fetch
\* of the page after k full ones throws)
SearchCalls ==
  {[res |-> r, failAt |-> -1, err |-> "none"] : r \in SearchResults}
  \cup {[res |-> << >>, failAt |-> 0, err |-> e] : e \in ErrKinds}
  \cup {c \in [res : SearchResults, failAt : {k * PageSize : k \in 1..MaxLen},
                err : ErrKinds] : c.failAt < Len(c.res)}

(***************************************************************************)
(* Watermark comparison and Search Orchestrator (store build)              *)
(***************************************************************************)
\* faulty variant: String `>` of JavaScript, lexicographic by code unit
RECURSIVE LexGreater(_, _)
LexGreater(a, b) ==
  IF a = << >> THEN FALSE
  ELSE IF b = << >> THEN TRUE
  ELSE IF Head(a) # Head(b) THEN DigitVal(Head(a)) > DigitVal(Head(b))
  ELSE LexGreater(Tail(a), Tail(b))

\* BigInt(tweet.id) > BigInt(maxSeenId)
IdGreater(a, b) == BigInt(a) > BigInt(b)

\* lines 243-250: the try/catch around the comparison
ObserveId(maxSeenId, id) ==
  IF maxSeenId = Undef THEN id
  ELSE IF BigIntThrows(id) \/ BigIntThrows(maxSeenId) THEN id
  ELSE IF IdGreater(id, maxSeenId) THEN id
  ELSE maxSeenId

\* lines 255-265 and 267-280: the Mention pushed for raw item i; every field but
\* the link entities is copied from Items[i], so the record keeps the index and
\* the marketPDA added to each link entity (Undef where none was added)
Augment(i) ==
  [src |-> i,
   marketPDA |-> [k \in DOMAIN Items[i].urls |->
                    extractMarketPDA(ResolvableUrl(Items[i].urls[k]))]]

\* the filter and the augmentation depend on the raw item alone; `filtered`
\* holds this record for every available item, evaluated when the items are
\* fixed, and the loop below reads it
Verdict(i) ==
  [throws |-> FilterThrows(Items[i]),
   passes |-> ~FilterThrows(Items[i]) /\ hasPnpMarketLink(Items[i]),
   mention |-> Augment(i)]

\* faulty variant: only the two recognised categories are swallowed
RethrowUnknown(thrown) == thrown \notin {"none", "429", "400"}

\* lines 282-290: the catch block logs by category and rethrows nothing
SearchCatchRethrows(thrown) == FALSE

\* one pass of the `for await` body (lines 241-281) over raw item i, the k-th
\* yielded: the max-seen update first, then the filter (which may throw), then
\* the push of the augmented Mention
LoopBody(acc, i, k) ==
  IF filtered[i].throws
  THEN [acc EXCEPT !.maxSeenId = ObserveId(@, Items[i].id), !.iter = k,
                   !.thrown = "TypeError"]
  ELSE IF ~filtered[i].passes
  THEN [acc EXCEPT !.maxSeenId = ObserveId(@, Items[i].id), !.iter = k]
  ELSE [acc EXCEPT !.maxSeenId = ObserveId(@, Items[i].id), !.iter = k,
                   !.tweets = Append(@, filtered[i].mention)]

\* the loop over the first n yielded items, left at the first throw
RECURSIVE SearchLoop(_, _, _, _)
SearchLoop(res, k, n, acc) ==
  IF k > n \/ acc.thrown # "none" THEN acc
  ELSE SearchLoop(res, k + 1, n, LoopBody(acc, res[k], k))

\* lines 282-292: what is thrown inside the try block is caught and logged, and
\* the accumulated tweets and maxSeenId are returned
SearchReturn(loop, apiErr) ==
  [tweets |-> loop.tweets,
   maxSeenId |-> loop.maxSeenId,
   iter |-> loop.iter,
   thrown |-> IF loop.thrown # "none" THEN loop.thrown ELSE apiErr,
   raised |-> SearchCatchRethrows(IF loop.thrown # "none" THEN loop.thrown ELSE apiErr)]

\* searchMentions: res is what the paginator would yield, failAt/err the API
\* failure (SearchCalls), self the value of this.sinceId at the call
searchMentions(res, failAt, err, self) ==
  SearchReturn(
    SearchLoop(res, 1, IF failAt >= 0 THEN failAt ELSE Len(res),
               [tweets |-> << >>, maxSeenId |-> self, iter |-> 0, thrown |-> "none"]),
    IF failAt >= 0 THEN err ELSE "none")

(***************************************************************************)
(* Persistence sinks                                                       *)
(***************************************************************************)
\* faulty variant: the batch is written in the order it was returned
KeepOrder(s) == s

\* [...newTweets].reverse()
Reverse(s) == [k \in DOMAIN s |-> s[Len(s) + 1 - k]]

\* pickMarketPDAFromEntities over the urls of a stored tweet, from index k on
RECURSIVE PickFrom(_, _)
PickFrom(t, k) ==
  IF k > Len(t.marketPDA) THEN Undef
  ELSE IF t.marketPDA[k] # Undef THEN t.marketPDA[k]
  ELSE LET p == filtered[t.src].mention.marketPDA[k]  \* extractMarketPDA(candidate)
       IN IF p # Undef THEN p ELSE PickFrom(t, k + 1)

\* pickMarketPDAFromEntities(tweet?.entities) || null  (Undef stands for null)
getMarketPDAFromTweet(t) == PickFrom(t, 1)

\* tweets.map(t => ({tweets_json: t, market_pda: getMarketPDAFromTweet(t)}))
ToRows(tweets) ==
  [k \in DOMAIN tweets |->
     [tweets_json |-> tweets[k], market_pda |-> getMarketPDAFromTweet(tweets[k])]]

\* SupabaseService.insertTwitterData: one insert statement; `if (error) throw error`
insertTwitterData(table, newRows, ok) ==
  IF ok THEN [table |-> table \o newRows, threw |-> FALSE]
  ELSE [table |-> table, threw |-> TRUE]

DocAbsent == [kind |-> "absent", count |-> 0, tweets |-> << >>]
DocGarbage == [kind |-> "garbage", count |-> 0, tweets |-> << >>]

\* FileStorageService.saveJson: overwrite with the given document
saveJson(d, data, ok) ==
  IF ok THEN [doc |-> [kind |-> "json", count |-> data.count, tweets |-> data.tweets],
              threw |-> FALSE]
  ELSE [doc |-> d, threw |-> TRUE]

\* faulty variant: the new batch replaces what the document held
appendOverwrite(d, tweets, ok) ==
  IF ok THEN [doc |-> [kind |-> "json", count |-> Len(tweets), tweets |-> tweets],
              threw |-> FALSE]
  ELSE [doc |-> d, threw |-> TRUE]

\* FileStorageService.appendTweets: read (absent or unparsable = empty), extend,
\* recount, rewrite
appendTweets(d, tweets, ok) ==
  LET current == IF d.kind = "json" THEN d.tweets ELSE << >>
      next == current \o tweets
  IN IF ok THEN [doc |-> [kind |-> "json", count |-> Len(next), tweets |-> next],
                 threw |-> FALSE]
     ELSE [doc |-> d, threw |-> TRUE]

(***************************************************************************)
(* Search Orchestrator of the file build (part_003): no filter, no max-seen *)
(***************************************************************************)
Plain(i) == [src |-> i, marketPDA |-> [k \in DOMAIN Items[i].urls |-> Undef]]

searchMentionsFile(res, failAt, err) ==
  [tweets |-> [k \in 1..(IF failAt >= 0 THEN failAt ELSE Len(res)) |-> Plain(res[k])],
   maxSeenId |-> Undef,
   iter |-> IF failAt >= 0 THEN failAt ELSE Len(res),
   thrown |-> IF failAt >= 0 THEN err ELSE "none",
   raised |-> SearchCatchRethrows(IF failAt >= 0 THEN err ELSE "none")]

\* part_003 line 103: newTweets.reduce((acc, t) => acc && BigInt(acc) > BigInt(t.id)
\*                                      ? acc : String(t.id), this.sinceId)
RECURSIVE ReduceMaxId(_, _, _)
ReduceMaxId(tweets, k, acc) ==
  IF k > Len(tweets) THEN [id |-> acc, threw |-> FALSE]
  ELSE LET id == Items[tweets[k].src].id
       IN IF acc # Undef /\ (BigIntThrows(acc) \/ BigIntThrows(id))
          THEN [id |-> acc, threw |-> TRUE]
          ELSE ReduceMaxId(tweets, k + 1,
                           IF acc # Undef /\ IdGreater(acc, id) THEN acc ELSE id)

(***************************************************************************)
(* Handlers                                                                *)
(***************************************************************************)
NoCand == [scheme |-> << >>, host |-> << >>, dom |-> FALSE, path |-> << >>, seg |-> << >>]
NoCall == [res |-> << >>, failAt |-> -1, err |-> "none", self |-> Undef]
NoRet == [tweets |-> << >>, maxSeenId |-> Undef, iter |-> 0, thrown |-> "none",
          raised |-> FALSE]

\* the poll invocations that may overlap, none of them started
Cycles == {"A", "B"}
NoCycles ==
  [n \in Cycles |-> [pc |-> "idle", self |-> Undef, raw |-> << >>, data |-> NoRet,
                     current |-> DocAbsent]]

\* nothing configured beyond the credential, no poll invocation in flight
Defaults == pollEnabled = Undef /\ cronEnabled = Undef /\ cyc = NoCycles

\* the response body of GET /mentions: metadata.count and the length of tweets
NoResponse == [sent |-> FALSE, count |-> 0, len |-> 0]

Yielded(c) == SubSeq(c.res, 1, IF c.failAt >= 0 THEN c.failAt ELSE Len(c.res))

\* the largest of a non-empty set of numeric identifiers
MaxIdOf(ids) == CHOOSE a \in ids : \A b \in ids : BigInt(b) <= BigInt(a)

\* largest identifier among the raw items a search yielded, Undef when none
RawMax(raw) ==
  IF raw = << >> THEN Undef ELSE MaxIdOf({Items[raw[k]].id : k \in DOMAIN raw})

\* record of one handler invocation: the watermark it started from, whether it
\* called the search capability, the largest
\* raw identifier its search yielded, whether the search threw (caught or not),
\* what the sink did, whether the handler raised to its caller, and the response
NoOp ==
  [op |-> "none", before |-> Undef, searched |-> FALSE, rawMax |-> Undef,
   searchFailed |-> FALSE, failedAt |-> -1, batch |-> 0, save |-> FALSE, sink |-> "none", raised |-> FALSE,
   response |-> NoResponse]

IdsOf(tweets) == {Items[tweets[k].src].id : k \in DOMAIN tweets}

\* the search honoured since_id: every item it yielded is newer than since
Honoured(raw, since) ==
  \A k \in DOMAIN raw :
    since = Undef \/ BigIntThrows(since) \/ BigIntThrows(Items[raw[k]].id)
      \/ BigInt(Items[raw[k]].id) > BigInt(since)

\* faulty variant: the watermark is never moved
StaleWatermark(maxSeenId) == sinceId

\* lines 164-165: const maxId = data.maxSeenId || this.sinceId; if (maxId) ...
AdvanceWatermark(maxSeenId) ==
  LET maxId == IF maxSeenId # Undef THEN maxSeenId ELSE sinceId
  IN IF maxId # Undef THEN maxId ELSE sinceId

\* the try block of pollNewMentions (store build), lines 145-168: nothing more
\* when the batch is empty; insert the rows oldest first; then move the watermark
PollStore(data, insertOk) ==
  IF data.raised \/ Len(data.tweets) = 0
  THEN [rows |-> rows, sinceId |-> sinceId, sink |-> "none"]
  ELSE IF insertTwitterData(rows, ToRows(Reverse(data.tweets)), insertOk).threw
  THEN [rows |-> rows, sinceId |-> sinceId, sink |-> "failed"]
  ELSE [rows |-> insertTwitterData(rows, ToRows(Reverse(data.tweets)), insertOk).table,
        sinceId |-> AdvanceWatermark(data.maxSeenId),
        sink |-> "ok"]

\* part_003 lines 103-104: if (maxId) this.sinceId = maxId, unless BigInt threw
FileWatermark(maxId) ==
  IF maxId.threw \/ maxId.id = Undef THEN sinceId ELSE maxId.id

\* the try block of pollNewMentions (file build), part_003 lines 85-107
PollFile(data, writeOk) ==
  IF data.raised \/ Len(data.tweets) = 0
  THEN [doc |-> doc, sinceId |-> sinceId, sink |-> "none"]
  ELSE IF appendTweets(doc, Reverse(data.tweets), writeOk).threw
  THEN [doc |-> doc, sinceId |-> sinceId, sink |-> "failed"]
  ELSE [doc |-> appendTweets(doc, Reverse(data.tweets), writeOk).doc,
        sinceId |-> FileWatermark(ReduceMaxId(data.tweets, 1, sinceId)),
        sink |-> "ok"]

sFalse == <<"f", "a", "l", "s", "e">>

\* faulty variant: the flag is not looked at
NeverDisabled(v) == FALSE

\* `v && v.toLowerCase() === 'false'`: the early return of a disabled job
Disabled(v) == v # Undef /\ ToLower(v) = sFalse

\* what a disabled job leaves behind: it was triggered and did nothing
Skipped(op) == [NoOp EXCEPT !.op = op, !.before = sinceId]

Wrote(by, op, tweets, sink) ==
  IF sink = "ok" THEN {[by |-> by, op |-> op, id |-> i] : i \in IdsOf(tweets)} ELSE {}

Record(op, c, data, save, sink, raised, response) ==
  [op |-> op, before |-> sinceId, searched |-> TRUE, rawMax |-> RawMax(Yielded(c)),
   searchFailed |-> data.thrown # "none", failedAt |-> c.failAt,
   batch |-> Len(data.tweets), save |-> save, sink |-> sink, raised |-> raised,
   response |-> response]

\* @Interval(15000) pollNewMentions, store build; lines 140-141 return at once
\* when MENTIONS_POLL_ENABLED is "false"
pollNewMentions ==
  /\ phase = "running" /\ variant = "store" /\ ops < MaxOps
  /\ \/ /\ Disabled(pollEnabled)
        /\ ops' = ops + 1
        /\ last' = Skipped("poll")
        /\ UNCHANGED <<rows, sinceId, honest, persisted>>
     \/ /\ ~Disabled(pollEnabled)
        /\ \E c \in SearchCalls : \E insertOk \in BOOLEAN :
           \E data \in {searchMentions(c.res, c.failAt, c.err, sinceId)} :
           \E out \in {PollStore(data, insertOk)} :
             /\ rows' = out.rows
             /\ sinceId' = out.sinceId
             /\ ops' = ops + 1
             /\ honest' = (honest /\ Honoured(Yielded(c), sinceId))
             /\ persisted' = persisted \cup Wrote(ops + 1, "poll", data.tweets, out.sink)
             /\ last' = Record("poll", c, data, TRUE, out.sink, FALSE, NoResponse)
  /\ UNCHANGED <<settings, cred, phase, variant, avail, filtered, doc, call, ret, spc, cand, pda,
                 xpc>>

\* @Interval(15000) pollNewMentions, file build
pollNewMentionsFile ==
  /\ phase = "running" /\ variant = "file" /\ ops < MaxOps
  /\ \/ /\ Disabled(pollEnabled)
        /\ ops' = ops + 1
        /\ last' = Skipped("poll")
        /\ UNCHANGED <<doc, sinceId, honest, persisted>>
     \/ /\ ~Disabled(pollEnabled)
        /\ \E c \in SearchCalls : \E writeOk \in BOOLEAN :
           \E data \in {searchMentionsFile(c.res, c.failAt, c.err)} :
           \E out \in {PollFile(data, writeOk)} :
             /\ doc' = out.doc
             /\ sinceId' = out.sinceId
             /\ ops' = ops + 1
             /\ honest' = (honest /\ Honoured(Yielded(c), sinceId))
             /\ persisted' = persisted \cup Wrote(ops + 1, "poll", data.tweets, out.sink)
             /\ last' = Record("poll", c, data, TRUE, out.sink, FALSE, NoResponse)
  /\ UNCHANGED <<settings, cred, phase, variant, avail, filtered, rows, call, ret, spc, cand, pda,
                 xpc>>

\* validateCredentials: throws when TWITTER_BEARER_TOKEN is missing
validateCredentialsThrows == ~cred

\* faulty variant: the count of the metadata is left at zero
OutputMiscounted(tweets) == [sent |-> TRUE, count |-> 0, len |-> Len(tweets)]

\* the Output Document built at lines 112-124, as the response sees it
OutputOf(tweets) == [sent |-> TRUE, count |-> Len(tweets), len |-> Len(tweets)]

\* faulty variant: a failure is answered with an empty Output Document
Degraded(data) ==
  [rows |-> rows, doc |-> doc, data |-> data, sink |-> "failed", raised |-> FALSE,
   response |-> OutputOf(<< >>)]

\* an exception leaves fetchRecentMentions: nothing is written, nothing is answered
Thrown(data) ==
  [rows |-> rows, doc |-> doc, data |-> data, sink |-> "none", raised |-> TRUE,
   response |-> NoResponse]

\* lines 126-134 (store build): insert only a non-empty batch, in the order of
\* the batch; an insert error propagates
SaveStore(save, data, insertOk) ==
  IF ~(save /\ Len(data.tweets) > 0)
  THEN [rows |-> rows, doc |-> doc, data |-> data, sink |-> "none", raised |-> FALSE,
        response |-> OutputOf(data.tweets)]
  ELSE IF insertTwitterData(rows, ToRows(data.tweets), insertOk).threw
  THEN [Thrown(data) EXCEPT !.sink = "failed"]
  ELSE [rows |-> insertTwitterData(rows, ToRows(data.tweets), insertOk).table,
        doc |-> doc, data |-> data, sink |-> "ok", raised |-> FALSE,
        response |-> OutputOf(data.tweets)]

\* part_003 lines 68-73 (file build): saveJson of the whole output; a write error
\* propagates
SaveFile(save, data, writeOk) ==
  IF ~save
  THEN [rows |-> rows, doc |-> doc, data |-> data, sink |-> "none", raised |-> FALSE,
        response |-> OutputOf(data.tweets)]
  ELSE IF saveJson(doc, [count |-> Len(data.tweets), tweets |-> data.tweets],
                   writeOk).threw
  THEN [Thrown(data) EXCEPT !.sink = "failed"]
  ELSE [rows |-> rows,
        doc |-> saveJson(doc, [count |-> Len(data.tweets), tweets |-> data.tweets],
                         writeOk).doc,
        data |-> data, sink |-> "ok", raised |-> FALSE,
        response |-> OutputOf(data.tweets)]

\* fetchRecentMentions(save): validateCredentials, one windowed search (no
\* since_id), the Output Document, the save of the build
fetchRecentMentions(save, c, sinkOk) ==
  IF validateCredentialsThrows THEN Thrown(NoRet)
  ELSE IF variant = "store"
  THEN SaveStore(save, searchMentions(c.res, c.failAt, c.err, sinceId), sinkOk)
  ELSE SaveFile(save, searchMentionsFile(c.res, c.failAt, c.err), sinkOk)

WatermarkFromBackfill(data) == data.maxSeenId

\* line 109 keeps only `tweets` of what searchMentions returns: maxSeenId is
\* dropped and fetchRecentMentions has no assignment to this.sinceId
WatermarkAfterBackfill(data) == sinceId

\* @Get() getMentions(save): shouldSave = (save === 'true'); whatever
\* fetchRecentMentions throws reaches the HTTP caller
getMentions ==
  /\ phase = "running" /\ ops < MaxOps
  /\ \E save \in {"true", "false", "absent"} :
     \E c \in SearchCalls : \E sinkOk \in BOOLEAN :
     \E out \in {fetchRecentMentions(save = "true", c, sinkOk)} :
       /\ rows' = out.rows
       /\ doc' = out.doc
       /\ sinceId' = WatermarkAfterBackfill(out.data)
       /\ ops' = ops + 1
       /\ persisted' = persisted
                         \cup Wrote(ops + 1, "backfill", out.data.tweets, out.sink)
       /\ last' = Record("backfill", c, out.data, save = "true", out.sink, out.raised,
                         out.response)
  /\ UNCHANGED <<settings, cred, phase, variant, avail, filtered, honest, call, ret, spc,
                 cand, pda, xpc>>

\* @Cron(EVERY_HOUR) cronIndexMentions: nothing when MENTIONS_CRON_ENABLED is
\* "false" (lines 174-177), else fetchRecentMentions(true) inside try/catch
cronIndexMentions ==
  /\ phase = "running" /\ ops < MaxOps
  /\ \/ /\ Disabled(cronEnabled)
        /\ ops' = ops + 1
        /\ last' = Skipped("cron")
        /\ UNCHANGED <<rows, doc, sinceId, persisted>>
     \/ /\ ~Disabled(cronEnabled)
        /\ \E c \in SearchCalls : \E sinkOk \in BOOLEAN :
           \E out \in {fetchRecentMentions(TRUE, c, sinkOk)} :
             /\ rows' = out.rows
             /\ doc' = out.doc
             /\ sinceId' = WatermarkAfterBackfill(out.data)
             /\ ops' = ops + 1
             /\ persisted' = persisted
                               \cup Wrote(ops + 1, "cron", out.data.tweets, out.sink)
             /\ last' = Record("cron", c, out.data, TRUE, out.sink, FALSE, NoResponse)
  /\ UNCHANGED <<settings, cred, phase, variant, avail, filtered, honest, call, ret, spc,
                 cand, pda, xpc>>

\* faulty variant: the identifier of the last result of the page
fetchOldestMentionId(res, fails) ==
  IF fails \/ res = << >> THEN Undef ELSE Items[res[Len(res)]].id

\* fetchLatestMentionId: res.tweets?.[0]?.id, undefined when the search throws
fetchLatestMentionId(res, fails) ==
  IF fails \/ res = << >> THEN Undef ELSE Items[res[1]].id

\* faulty variant: the factory builds a client whatever the token
ProviderLenient == FALSE

\* TwitterClientProvider.useFactory: throws without a token, so the module (and
\* the process) never comes up
ProviderThrows == ~cred

\* process start: provider construction, then onModuleInit, which validates
\* the credential and primes sinceId, both inside try/catch
Startup ==
  /\ phase = "boot"
  /\ \E res \in SearchResults : \E fails \in BOOLEAN :
       LET latest == fetchLatestMentionId(res, fails)
       IN IF ProviderThrows
          THEN /\ phase' = "fatal"
               /\ UNCHANGED <<sinceId, last>>
          ELSE IF validateCredentialsThrows
          THEN /\ phase' = "running"
               /\ last' = [NoOp EXCEPT !.op = "prime"]
               /\ UNCHANGED sinceId
          ELSE /\ phase' = "running"
               /\ sinceId' = IF latest # Undef THEN latest ELSE sinceId
               /\ last' = [NoOp EXCEPT !.op = "prime", !.searched = TRUE,
                                       !.rawMax = IF fails THEN Undef ELSE RawMax(res),
                                       !.searchFailed = fails]
  /\ UNCHANGED <<settings, cred, variant, avail, filtered, rows, doc, ops, persisted,
                 honest, call, ret, spc, cand, pda, xpc>>

\* items of the process runs: an unrelated link, an expanded pnp.exchange link,
\* a link only in the text, a scheme-less display_url
ProcessItems == {1, 2, 3, 4}

Init ==
  /\ Defaults
  /\ cred \in BOOLEAN
  /\ phase = "boot"
  /\ variant \in {"store", "file"}
  /\ avail = ProcessItems
  /\ filtered = [i \in ProcessItems |-> Verdict(i)]
  /\ sinceId = Undef
  /\ rows = << >>
  /\ doc \in {DocAbsent, DocGarbage}
  /\ (variant = "store" => doc = DocAbsent)
  /\ ops = 0
  /\ last = NoOp
  /\ persisted = {}
  /\ honest = TRUE
  /\ call = NoCall /\ ret = NoRet /\ spc = "idle"
  /\ cand = NoCand /\ pda = Undef /\ xpc = "idle"

Next ==
  \/ Startup
  \/ pollNewMentions
  \/ pollNewMentionsFile
  \/ getMentions
  \/ cronIndexMentions

Spec == Init /\ [][Next]_vars

(***************************************************************************)
(* Properties of the process (Spec)                                        *)
(***************************************************************************)
\* numeric order of watermarks, the absent one below every identifier
WmLeq(a, b) == a = Undef \/ (b # Undef /\ BigInt(a) <= BigInt(b))

\* numeric maximum of two identifiers, either of which may be absent
MaxId(a, b) ==
  IF a = Undef THEN b
  ELSE IF b = Undef THEN a
  ELSE IF BigInt(b) > BigInt(a) THEN b ELSE a

\* C1: the watermark never decreases under numeric comparison, whatever the
\* searches return; a poll cycle that persisted its batch leaves it at the
\* numeric maximum of the watermark before and the identifiers it saw (so the
\* same identifier seen again changes nothing, and an identifier with more
\* digits wins over a shorter one that is lexicographically larger).
WatermarkMonotonic ==
  [][ /\ WmLeq(sinceId, sinceId')
      /\ (last'.op = "poll" /\ last'.sink = "ok"
            => sinceId' = MaxId(sinceId, last'.rawMax)) ]_vars

\* a poll cycle moved the watermark from a one-digit to a two-digit identifier
WatermarkGrewADigit ==
  /\ last.op = "poll"
  /\ last.before # Undef
  /\ Len(last.before) = 1
  /\ Len(sinceId) = 2

\* C2 (as stated): after a poll cycle without failure whose search returned at
\* least one raw item, the watermark is the numeric maximum of the watermark
\* before and the identifiers of all raw items, also when none qualified.
WatermarkFollowsRawItems ==
  (last.op = "poll" /\ ~last.searchFailed /\ last.sink # "failed"
     /\ last.rawMax # Undef)
    => sinceId = MaxId(last.before, last.rawMax)

\* C4: provided every search of a poll cycle returned only identifiers above
\* the since_id it was given, no identifier is persisted by two poll cycles.
NoDuplicateIngestion ==
  honest =>
    \A p \in persisted : \A q \in persisted :
      (p.op = "poll" /\ q.op = "poll" /\ p.id = q.id) => p.by = q.by

\* two poll cycles with honest searches have each persisted a batch
TwoPollsPersisted ==
  /\ honest
  /\ \E p \in persisted : \E q \in persisted :
       p.op = "poll" /\ q.op = "poll" /\ p.by # q.by

\* C5 (as stated): a poll cycle in which the search or the persistence failed
\* raises nothing and leaves the watermark as it was before the cycle.
FailedPollKeepsWatermark ==
  (last.op = "poll" /\ (last.searchFailed \/ last.sink = "failed"))
    => ~last.raised /\ sinceId = last.before

CountIsLength ==
  /\ doc.kind = "json" => doc.count = Len(doc.tweets)
  /\ last.response.sent => last.response.count = last.response.len

\* a poll cycle appended to a document that a snapshot had written before
AppendAfterSnapshot ==
  /\ variant = "file"
  /\ last.op = "poll"
  /\ last.sink = "ok"
  /\ \E p \in persisted : p.op \in {"backfill", "cron"}
  /\ Len(doc.tweets) >= 2

\* C15: without the credential the process never runs (no poll cycle, no
\* backfill, no hourly job is ever served), while a priming search that failed
\* leaves the process running.
MissingCredentialIsFatal ==
  /\ ~cred => phase # "running" /\ ops = 0 /\ last.op = "none"
  /\ (last.op = "prime" /\ last.searchFailed) => phase = "running"

\* the process stopped at startup for want of the credential
StoppedWithoutCredential == ~cred /\ phase = "fatal"

\* C16: after priming the watermark is the identifier of the newest item the
\* priming search returned, qualifying or not, and absent when that search
\* failed or returned nothing; the process runs in both cases, and the first
\* poll cycle after priming searches from exactly that watermark (no lower
\* bound when it is absent).
PrimingTakesTopResult ==
  [][ /\ (phase = "boot" /\ phase' = "running")
          => /\ sinceId' = last'.rawMax
             /\ last'.searchFailed => sinceId' = Undef
      /\ (last.op = "prime" /\ last'.op = "poll" /\ last'.searched)
          => last'.before = last.rawMax ]_vars

\* priming left the identifier of an item that does not pass the filter
PrimedWithUnqualifiedItem ==
  /\ last.op = "prime"
  /\ sinceId # Undef
  /\ \E i \in avail : Items[i].id = sinceId /\ ~filtered[i].passes

\* C22: a manual backfill or an hourly snapshot, whatever it fetches and
\* whether it succeeds or fails, leaves the watermark unchanged; only startup
\* priming and a poll cycle write the watermark.
BackfillLeavesWatermark ==
  [][ /\ (ops' = ops + 1 /\ last'.op \in {"backfill", "cron"}) => sinceId' = sinceId
      /\ sinceId' # sinceId => last'.op \in {"prime", "poll"} ]_vars

\* a saving backfill or snapshot stored a result newer than the watermark held
BackfillStoredNewer ==
  /\ last.op \in {"backfill", "cron"}
  /\ last.sink = "ok"
  /\ sinceId # Undef /\ last.rawMax # Undef
  /\ BigInt(last.rawMax) > BigInt(sinceId)

(***************************************************************************)
(* The process under every setting of the two job toggles                  *)
(***************************************************************************)
ToggleValues == {Undef, sFalse, <<"F", "a", "l", "s", "e">>}

InitConfig ==
  /\ pollEnabled \in ToggleValues
  /\ cronEnabled \in ToggleValues
  /\ cyc = NoCycles
  /\ cred = TRUE
  /\ phase = "boot"
  /\ variant \in {"store", "file"}
  /\ avail = ProcessItems
  /\ filtered = [i \in ProcessItems |-> Verdict(i)]
  /\ sinceId = Undef
  /\ rows = << >>
  /\ doc = DocAbsent
  /\ ops = 0
  /\ last = NoOp
  /\ persisted = {}
  /\ honest = TRUE
  /\ call = NoCall /\ ret = NoRet /\ spc = "idle"
  /\ cand = NoCand /\ pda = Undef /\ xpc = "idle"

NextConfig ==
  \/ Startup
  \/ pollNewMentions
  \/ pollNewMentionsFile
  \/ getMentions
  \/ cronIndexMentions

SpecConfig == InitConfig /\ [][NextConfig]_vars

\* C14: with MENTIONS_POLL_ENABLED "false" a poll trigger calls no search,
\* writes nothing and leaves the watermark; with MENTIONS_CRON_ENABLED "false"
\* an hourly trigger calls no search and writes nothing; a job whose own toggle
\* is not set, and the backfill, still call the search whatever the other
\* toggle says.
TogglesShortCircuit ==
  [][ /\ (last'.op = "poll" /\ ops' # ops /\ pollEnabled = sFalse)
          => ~last'.searched /\ rows' = rows /\ doc' = doc /\ sinceId' = sinceId
               /\ persisted' = persisted
      /\ (last'.op = "cron" /\ ops' # ops /\ cronEnabled = sFalse)
          => ~last'.searched /\ rows' = rows /\ doc' = doc /\ persisted' = persisted
      /\ (last'.op = "poll" /\ ops' # ops /\ pollEnabled = Undef) => last'.searched
      /\ (last'.op = "cron" /\ ops' # ops /\ cronEnabled = Undef) => last'.searched
      /\ (last'.op = "backfill" /\ ops' # ops) => last'.searched ]_vars

\* a disabled poll trigger did nothing while the hourly job had persisted
DisabledPollEnabledCron ==
  /\ pollEnabled = sFalse
  /\ last.op = "poll"
  /\ ~last.searched
  /\ \E p \in persisted : p.op = "cron"

(***************************************************************************)
(* One call of the Search Orchestrator, for every API behaviour            *)
(***************************************************************************)
\* the watermark a call may find: absent, or any identifier priming or a poll set
Watermarks == {Undef} \cup {Items[i].id : i \in NumericItems}

InitSearch ==
  /\ Defaults
  /\ cred = TRUE
  /\ phase = "running"
  /\ variant = "store"
  /\ avail = NumericItems
  /\ filtered = [i \in NumericItems |-> Verdict(i)]
  /\ sinceId \in Watermarks
  /\ rows = << >>
  /\ doc = DocAbsent
  /\ ops = 0
  /\ last = NoOp
  /\ persisted = {}
  /\ honest = TRUE
  /\ call \in {[res |-> c.res, failAt |-> c.failAt, err |-> c.err, self |-> sinceId] :
                 c \in SearchCalls}
  /\ ret = NoRet
  /\ spc = "ready"
  /\ cand = NoCand /\ pda = Undef /\ xpc = "idle"

RunSearch ==
  /\ spc = "ready"
  /\ ret' = searchMentions(call.res, call.failAt, call.err, call.self)
  /\ spc' = "done"
  /\ UNCHANGED <<settings, cred, phase, variant, avail, filtered, sinceId, rows, doc, ops, last,
                 persisted, honest, call, cand, pda, xpc>>

NextSearch == RunSearch

SpecSearch == InitSearch /\ [][NextSearch]_vars

(***************************************************************************)
(* Properties of the Search Orchestrator (SpecSearch)                      *)
(***************************************************************************)
\* the raw items the call iterated before it returned
Iterated == {call.res[k] : k \in 1..ret.iter}

\* the raw items of the returned batch
InBatch == {ret.tweets[j].src : j \in DOMAIN ret.tweets}

\* a link entity's resolvable URL matches the domain link pattern, or the raw
\* text matches the free-text pattern
Matched(i) ==
  \/ /\ Items[i].entities = "ok"
     /\ \E k \in DOMAIN Items[i].urls : PnpLinkRe(ResolvableUrl(Items[i].urls[k]))
  \/ hasPnpMarketUrlInText(Items[i].text)

MatchedItems == {i \in NumericItems : Matched(i)}

\* C3 (as stated): a rate-limit failure at any point of pagination makes the
\* call return an empty batch and the watermark it was called with.
RateLimitKeepsNothing ==
  (spc = "done" /\ call.err = "429")
    => ret.tweets = << >> /\ ret.maxSeenId = call.self

\* C6: every Mention of the returned batch comes from a matched raw item; an
\* iterated raw item without a match is not in the batch and its identifier is
\* not above the returned max-seen identifier.
OnlyMatchedInBatch ==
  spc = "done"
    => /\ InBatch \subseteq MatchedItems
       /\ \A i \in Iterated \ MatchedItems :
            /\ i \notin InBatch
            /\ WmLeq(Items[i].id, ret.maxSeenId)
            /\ ret.maxSeenId # Undef

\* a call returned a Mention and also iterated an item without a match
BatchWithDroppedItem ==
  /\ spc = "done"
  /\ ret.tweets # << >>
  /\ Iterated \ MatchedItems # {}

\* raw items whose only link field is the scheme-less display URL
\* pnp.exchange/M1 and whose text holds no link
BareDisplayItems ==
  {i \in NumericItems :
     /\ Items[i].entities = "ok"
     /\ Items[i].urls = <<[expanded_url |-> << >>, url |-> << >>, display_url |-> dM1]>>
     /\ ~hasPnpMarketUrlInText(Items[i].text)}

\* C7 (as stated): an iterated raw item whose only link field is a scheme-less
\* display URL in the domain namespace is in the batch, with the derived
\* linked identifier M1.
BareDisplayUrlAccepted ==
  spc = "done"
    => \A i \in Iterated \cap BareDisplayItems :
         \E j \in DOMAIN ret.tweets :
           /\ ret.tweets[j].src = i
           /\ \E u \in DOMAIN ret.tweets[j].marketPDA :
                ret.tweets[j].marketPDA[u] = <<"M", "1">>

\* C9: the call returns its result pair and raises nothing, whatever the search
\* capability threw and whatever the raw items look like.
OrchestratorNeverRaises == spc = "done" => ~ret.raised

\* a call returned after the search capability threw during pagination
ReturnedAfterFailure ==
  /\ spc = "done"
  /\ ret.thrown \in ErrKinds
  /\ ret.iter > 0
  /\ ~ret.raised

(***************************************************************************)
(* One call of the Search Orchestrator when identifiers need not be numeric *)
(***************************************************************************)
AnyWatermarks == {Undef} \cup {Items[i].id : i \in DOMAIN Items}

InitSearchAny ==
  /\ Defaults
  /\ cred = TRUE
  /\ phase = "running"
  /\ variant = "store"
  /\ avail = DOMAIN Items
  /\ filtered = [i \in DOMAIN Items |-> Verdict(i)]
  /\ sinceId \in AnyWatermarks
  /\ rows = << >>
  /\ doc = DocAbsent
  /\ ops = 0
  /\ last = NoOp
  /\ persisted = {}
  /\ honest = TRUE
  /\ call \in {[res |-> c.res, failAt |-> c.failAt, err |-> c.err, self |-> sinceId] :
                 c \in SearchCalls}
  /\ ret = NoRet
  /\ spc = "ready"
  /\ cand = NoCand /\ pda = Undef /\ xpc = "idle"

NextSearchAny == RunSearch

SpecSearchAny == InitSearchAny /\ [][NextSearchAny]_vars

\* C11 (as stated): when an iterated raw item has a non-numeric identifier the
\* call raises nothing and the max-seen identifier it returns is the
\* identifier of the newest item of the batch (the first one yielded).
NonNumericFallsBackToNewest ==
  (spc = "done" /\ \E k \in 1..ret.iter : BigIntThrows(Items[call.res[k]].id))
    => ~ret.raised /\ ret.maxSeenId = Items[call.res[1]].id

(***************************************************************************)
(* Filter against extractor, on the batches of SpecSearch                  *)
(***************************************************************************)
\* the filter lets item i through on one of its link entities
PassesByEntity(i) ==
  /\ Items[i].entities = "ok"
  /\ \E k \in DOMAIN Items[i].urls : PnpLinkRe(ResolvableUrl(Items[i].urls[k]))

\* the link entities of mention t that carry an extracted identifier
AugmentedEntities(t) == {j \in DOMAIN t.marketPDA : t.marketPDA[j] # Undef}

\* C24 (as stated): every mention whose raw item passed the filter through a
\* link entity has a link entity augmented with an extracted identifier, and
\* the row built for it has a non-null market_pda, the identifier of the first
\* such entity.
FilterAndExtractorAgree ==
  spc = "done"
    => \A k \in DOMAIN ret.tweets :
         PassesByEntity(ret.tweets[k].src)
           => /\ AugmentedEntities(ret.tweets[k]) # {}
              /\ ToRows(ret.tweets)[k].market_pda # Undef
              /\ \A j \in AugmentedEntities(ret.tweets[k]) :
                   (\A h \in AugmentedEntities(ret.tweets[k]) : j <= h)
                     => ToRows(ret.tweets)[k].market_pda = ret.tweets[k].marketPDA[j]

(***************************************************************************)
(* Appends to one document of the file sink                                *)
(***************************************************************************)
\* batches handed to appendTweets: up to MaxLen mentions, repetitions allowed
AppendBatches ==
  UNION {[1..n -> {Plain(1), Plain(2)}] : n \in 0..MaxLen}

\* what the path may hold before: nothing, text that is no JSON, an Output
\* Document (also one whose count was edited by hand)
PriorDocs ==
  { DocAbsent, DocGarbage,
    [kind |-> "json", count |-> 0, tweets |-> << >>],
    [kind |-> "json", count |-> 1, tweets |-> <<Plain(3)>>],
    [kind |-> "json", count |-> 0, tweets |-> <<Plain(3), Plain(1)>>] }

\* the mention sequence a document holds
TweetsOf(d) == IF d.kind = "json" THEN d.tweets ELSE << >>

InitAppend ==
  /\ Defaults
  /\ cred = TRUE
  /\ phase = "running"
  /\ variant = "file"
  /\ avail = {}
  /\ filtered = << >>
  /\ sinceId = Undef
  /\ rows = << >>
  /\ doc \in PriorDocs
  /\ ops = 0
  /\ last = NoOp
  /\ persisted = {}
  /\ honest = TRUE
  /\ call \in {[d |-> doc, X |-> x, Y |-> y] : x \in AppendBatches, y \in AppendBatches}
  /\ ret = NoRet
  /\ spc = "ready"
  /\ cand = NoCand /\ pda = Undef /\ xpc = "idle"

\* appendTweets(path, X) and then appendTweets(path, Y) on the document
AppendFirst ==
  /\ spc = "ready"
  /\ \E ok \in BOOLEAN : \E out \in {appendTweets(doc, call.X, ok)} :
       /\ doc' = out.doc
       /\ spc' = IF out.threw THEN "threw" ELSE "first"
  /\ UNCHANGED <<settings, cred, phase, variant, avail, filtered, sinceId, rows, ops, last,
                 persisted, honest, call, ret, cand, pda, xpc>>

AppendSecond ==
  /\ spc = "first"
  /\ \E ok \in BOOLEAN : \E out \in {appendTweets(doc, call.Y, ok)} :
       /\ doc' = out.doc
       /\ spc' = IF out.threw THEN "threw" ELSE "second"
  /\ UNCHANGED <<settings, cred, phase, variant, avail, filtered, sinceId, rows, ops, last,
                 persisted, honest, call, ret, cand, pda, xpc>>

\* one appendTweets(path, X ++ Y) on a copy of the prior document
AppendWhole ==
  /\ spc \in {"ready", "first", "second"}
  /\ ret = NoRet
  /\ ret' = appendTweets(call.d, call.X \o call.Y, TRUE)
  /\ UNCHANGED <<settings, cred, phase, variant, avail, filtered, sinceId, rows, doc, ops, last,
                 persisted, honest, call, spc, cand, pda, xpc>>

NextAppend == AppendFirst \/ AppendSecond \/ AppendWhole

SpecAppend == InitAppend /\ [][NextAppend]_vars

\* C12: after appending X and then Y the document holds the prior sequence
\* (empty for an absent or unparsable file) followed by X then Y, nothing
\* removed and nothing reordered, which is also what one append of X ++ Y gives.
AppendAssociative ==
  (spc = "second" /\ ret # NoRet)
    => /\ doc.kind = "json"
       /\ doc.tweets = TweetsOf(call.d) \o call.X \o call.Y
       /\ doc.tweets = ret.doc.tweets

\* a non-empty batch was appended twice to a document that held a mention
SameBatchTwice ==
  /\ spc = "second"
  /\ ret # NoRet
  /\ call.X # << >>
  /\ call.X = call.Y
  /\ TweetsOf(call.d) # << >>

(***************************************************************************)
(* Two appends to one document whose awaits interleave (SpecInterleave):   *)
(* appendTweets awaits readFile (line 33) and later writeFile (line 45);   *)
(* invocation A appends call.X, invocation B appends call.Y.               *)
(***************************************************************************)
\* lines 18-37: `current` is the parsed file, or the empty default when the
\* file is absent or does not parse
readCurrent(d) ==
  IF d.kind = "json" THEN d ELSE [kind |-> "json", count |-> 0, tweets |-> << >>]

\* lines 39-45: extend what was read, recount, rewrite the whole file
writeCurrent(d, current, tweets, ok) ==
  IF ok
  THEN [doc |-> [kind |-> "json", count |-> Len(current.tweets \o tweets),
                 tweets |-> current.tweets \o tweets],
        threw |-> FALSE]
  ELSE [doc |-> d, threw |-> TRUE]

BatchOf(n) == IF n = "A" THEN call.X ELSE call.Y

InitInterleave ==
  /\ Defaults
  /\ cred = TRUE
  /\ phase = "running"
  /\ variant = "file"
  /\ avail = {}
  /\ filtered = << >>
  /\ sinceId = Undef
  /\ rows = << >>
  /\ doc \in PriorDocs
  /\ ops = 0
  /\ last = NoOp
  /\ persisted = {}
  /\ honest = TRUE
  /\ call \in {[d |-> doc, X |-> x, Y |-> y] : x \in AppendBatches, y \in AppendBatches}
  /\ ret = NoRet
  /\ spc = "idle"
  /\ cand = NoCand /\ pda = Undef /\ xpc = "idle"

\* the readFile of invocation n returns
appendTweetsRead(n) ==
  /\ cyc[n].pc = "idle"
  /\ cyc' = [cyc EXCEPT ![n].pc = "read", ![n].current = readCurrent(doc)]
  /\ UNCHANGED <<pollEnabled, cronEnabled, cred, phase, variant, avail, filtered, sinceId,
                 rows, doc, ops, last, persisted, honest, call, ret, spc, cand, pda, xpc>>

\* the writeFile of invocation n returns or throws
appendTweetsWrite(n) ==
  /\ cyc[n].pc = "read"
  /\ \E ok \in BOOLEAN : \E out \in {writeCurrent(doc, cyc[n].current, BatchOf(n), ok)} :
       /\ doc' = out.doc
       /\ cyc' = [cyc EXCEPT ![n].pc = IF out.threw THEN "threw" ELSE "done"]
  /\ UNCHANGED <<pollEnabled, cronEnabled, cred, phase, variant, avail, filtered, sinceId,
                 rows, ops, last, persisted, honest, call, ret, spc, cand, pda, xpc>>

NextInterleave ==
  \E n \in Cycles : appendTweetsRead(n) \/ appendTweetsWrite(n)

SpecInterleave == InitInterleave /\ [][NextInterleave]_vars

\* how many times mention m occurs in the sequence s
Occurrences(s, m) == Cardinality({k \in DOMAIN s : s[k] = m})

\* C23 (as stated): after two appends to the same path have both completed,
\* however their read and write steps interleaved, the document holds every
\* mention of both batches (as many times as the batches hold it) and its
\* count equals the length of its mention sequence.
InterleavedAppendsKeepBoth ==
  (\A n \in Cycles : cyc[n].pc = "done")
    => /\ doc.kind = "json"
       /\ doc.count = Len(doc.tweets)
       /\ \A m \in {Plain(1), Plain(2)} :
            Occurrences(doc.tweets, m)
              >= Occurrences(call.X, m) + Occurrences(call.Y, m)

(***************************************************************************)
(* The row-id range read GET /mentions/data?from=&to=                      *)
(***************************************************************************)
MaxRowId == 3   \* largest row id of the table

NaN == [finite |-> FALSE, val |-> 0]

\* Number(text) on the strings a query parameter may carry: surrounding
\* whitespace is dropped, the empty string is 0, a decimal numeral with an
\* optional sign is its value, anything else is NaN
Number(text) ==
  IF normalizeString(text) = << >> THEN [finite |-> TRUE, val |-> 0]
  ELSE IF Head(normalizeString(text)) = "-"
  THEN IF Len(normalizeString(text)) = 1 \/ BigIntThrows(Tail(normalizeString(text)))
       THEN NaN
       ELSE [finite |-> TRUE, val |-> 0 - BigInt(Tail(normalizeString(text)))]
  ELSE IF BigIntThrows(normalizeString(text)) THEN NaN
  ELSE [finite |-> TRUE, val |-> BigInt(normalizeString(text))]

\* the rows of a set in ascending id order: .order('id', { ascending: true })
RECURSIVE OrderById(_)
OrderById(S) ==
  IF S = {} THEN << >>
  ELSE <<CHOOSE r \in S : \A q \in S : r.id <= q.id>>
         \o OrderById(S \ {CHOOSE r \in S : \A q \in S : r.id <= q.id})

\* SupabaseService.getTwitterDataInRange: low/high normalised, one select
getTwitterDataInRange(from, to, table, ok) ==
  IF ok
  THEN [threw |-> FALSE,
        data |-> OrderById({r \in table :
                              /\ r.id >= (IF from <= to THEN from ELSE to)
                              /\ r.id <= (IF from <= to THEN to ELSE from)})]
  ELSE [threw |-> TRUE, data |-> << >>]

NoRead == [error |-> "none", read |-> FALSE, raised |-> FALSE, body |-> << >>]

\* (rows || []).map(r => r?.tweets_json).filter(x => x != null)
PayloadsOf(read) ==
  IF read.threw THEN [NoRead EXCEPT !.read = TRUE, !.raised = TRUE]
  ELSE [NoRead EXCEPT !.read = TRUE,
                      !.body = [k \in DOMAIN read.data |-> read.data[k].tweets_json]]

\* MentionsController.getDataInRange; a parameter is [given, text]
getDataInRange(from, to, table, ok) ==
  IF ~from.given \/ ~to.given THEN [NoRead EXCEPT !.error = "missing"]
  ELSE IF ~Number(from.text).finite \/ ~Number(to.text).finite
  THEN [NoRead EXCEPT !.error = "invalid"]
  ELSE PayloadsOf(getTwitterDataInRange(Number(from.text).val, Number(to.text).val,
                                        table, ok))

\* query parameter values: absent, empty, numerals, text that is no numeral
ParamValues ==
  { [given |-> FALSE, text |-> << >>],
    [given |-> TRUE, text |-> << >>],
    [given |-> TRUE, text |-> <<"0">>],
    [given |-> TRUE, text |-> <<"1">>],
    [given |-> TRUE, text |-> <<"2">>],
    [given |-> TRUE, text |-> <<"3">>],
    [given |-> TRUE, text |-> <<"2", "x">>],
    [given |-> TRUE, text |-> <<"a", "b", "c">>] }

\* the table: any rows with ids up to MaxRowId (ids may have gaps), each with
\* the payload insertTwitterData stored
Tables ==
  {{[id |-> n, tweets_json |-> Plain(((n - 1) % 2) + 1), market_pda |-> Undef] : n \in S} :
     S \in SUBSET (1..MaxRowId)}

InitRange ==
  /\ Defaults
  /\ cred = TRUE
  /\ phase = "running"
  /\ variant = "store"
  /\ avail = {}
  /\ filtered = << >>
  /\ sinceId = Undef
  /\ rows = << >>
  /\ doc = DocAbsent
  /\ ops = 0
  /\ last = NoOp
  /\ persisted = {}
  /\ honest = TRUE
  /\ call \in [from : ParamValues, to : ParamValues, table : Tables, ok : BOOLEAN]
  /\ ret = NoRead
  /\ spc = "ready"
  /\ cand = NoCand /\ pda = Undef /\ xpc = "idle"

RunRange ==
  /\ spc = "ready"
  /\ ret' = getDataInRange(call.from, call.to, call.table, call.ok)
  /\ spc' = "done"
  /\ UNCHANGED <<settings, cred, phase, variant, avail, filtered, sinceId, rows, doc, ops,
                 last, persisted, honest, call, cand, pda, xpc>>

NextRange == RunRange

SpecRange == InitRange /\ [][NextRange]_vars

\* a bound is numeric when it is a non-empty decimal numeral
NumericParam(p) == p.given /\ p.text # << >> /\ ~BigIntThrows(p.text)

\* the payloads of the rows with lo <= id <= hi, by ascending id
RECURSIVE PayloadsBetween(_, _, _)
PayloadsBetween(table, lo, hi) ==
  IF lo > hi THEN << >>
  ELSE (IF \E r \in table : r.id = lo
        THEN <<(CHOOSE r \in table : r.id = lo).tweets_json>> ELSE << >>)
       \o PayloadsBetween(table, lo + 1, hi)

\* C17 (as stated): with numeric bounds the read returns the payloads of
\* exactly the rows between the smaller and the larger bound, by ascending
\* row id, whichever bound comes first; a missing bound is answered with the
\* missing-parameters error and a non-numeric bound with the invalid-bounds
\* error, without a store read.
RangeReadContract ==
  (spc = "done" /\ call.ok)
    => /\ (NumericParam(call.from) /\ NumericParam(call.to))
            => /\ ret.error = "none"
               /\ ret.body = PayloadsBetween(call.table,
                      IF BigInt(call.from.text) <= BigInt(call.to.text)
                      THEN BigInt(call.from.text) ELSE BigInt(call.to.text),
                      IF BigInt(call.from.text) <= BigInt(call.to.text)
                      THEN BigInt(call.to.text) ELSE BigInt(call.from.text))
       /\ (~call.from.given \/ ~call.to.given)
            => ret.error = "missing" /\ ~ret.read
       /\ (call.from.given /\ call.to.given
             /\ (~NumericParam(call.from) \/ ~NumericParam(call.to)))
            => ret.error = "invalid" /\ ~ret.read

(***************************************************************************)
(* Poll cycles step by step: @Interval fires whether or not the previous   *)
(* invocation has returned, so two invocations may be in flight at once    *)
(***************************************************************************)
\* lines 140-146: the toggle, then searchMentions is entered, which reads
\* this.sinceId into maxSeenId and the since_id argument before its first await
PollBegin(n) ==
  /\ cyc[n].pc = "idle"
  /\ cyc' = [cyc EXCEPT ![n].pc = IF Disabled(pollEnabled) THEN "done" ELSE "searching",
                        ![n].self = sinceId]
  /\ UNCHANGED <<pollEnabled, cronEnabled, cred, phase, variant, avail, filtered, sinceId,
                 rows, doc, ops, last, persisted, honest, call, ret, spc, cand, pda, xpc>>

\* the search of invocation n returns: the batch of its build, from the
\* watermark the invocation started with; an empty batch ends the invocation
SearchOf(c, self) ==
  IF variant = "store" THEN searchMentions(c.res, c.failAt, c.err, self)
  ELSE searchMentionsFile(c.res, c.failAt, c.err)

PollSearched(n) ==
  /\ cyc[n].pc = "searching"
  /\ \E c \in SearchCalls : \E data \in {SearchOf(c, cyc[n].self)} :
       cyc' = [cyc EXCEPT ![n].pc = IF Len(data.tweets) = 0 THEN "done" ELSE "persisting",
                          ![n].raw = SubSeq(c.res, 1, data.iter),
                          ![n].data = data]
  /\ UNCHANGED <<pollEnabled, cronEnabled, cred, phase, variant, avail, filtered, sinceId,
                 rows, doc, ops, last, persisted, honest, call, ret, spc, cand, pda, xpc>>

\* the write of invocation n returns and, if it succeeded, the watermark is
\* assigned (lines 161-165; part_003 lines 97-104) from what is held by then
PersistOf(data, ok) ==
  IF variant = "store"
  THEN PollStore(data, ok) @@ [doc |-> doc]
  ELSE PollFile(data, ok) @@ [rows |-> rows]

PollPersisted(n) ==
  /\ cyc[n].pc = "persisting"
  /\ \E ok \in BOOLEAN : \E out \in {PersistOf(cyc[n].data, ok)} :
       /\ rows' = out.rows
       /\ doc' = out.doc
       /\ sinceId' = out.sinceId
       /\ persisted' = persisted \cup Wrote(n, "poll", cyc[n].data.tweets, out.sink)
       /\ cyc' = [cyc EXCEPT ![n].pc = IF out.sink = "ok" THEN "done" ELSE "failed"]
  /\ UNCHANGED <<pollEnabled, cronEnabled, cred, phase, variant, avail, filtered, ops,
                 last, honest, call, ret, spc, cand, pda, xpc>>

\* the process is running, primed or not, with what earlier cycles stored
InitOverlap ==
  /\ Defaults
  /\ cred = TRUE
  /\ phase = "running"
  /\ variant \in {"store", "file"}
  /\ avail = ProcessItems
  /\ filtered = [i \in ProcessItems |-> Verdict(i)]
  /\ sinceId \in {Undef} \cup {Items[i].id : i \in ProcessItems}
  /\ rows = << >>
  /\ doc \in {DocAbsent, DocGarbage}
  /\ (variant = "store" => doc = DocAbsent)
  /\ ops = 0
  /\ last = NoOp
  /\ persisted = {}
  /\ honest = TRUE
  /\ call = NoCall /\ ret = NoRet /\ spc = "idle"
  /\ cand = NoCand /\ pda = Undef /\ xpc = "idle"

NextOverlap ==
  \E n \in Cycles : PollBegin(n) \/ PollSearched(n) \/ PollPersisted(n)

SpecOverlap == InitOverlap /\ [][NextOverlap]_vars

\* C20 (as stated): also when two poll cycles overlap, no step decreases the
\* watermark under numeric comparison.
OverlapKeepsWatermarkMonotonic == [][WmLeq(sinceId, sinceId')]_vars

\* the raw items behind a sequence of mentions
SourcesOf(tweets) == [k \in DOMAIN tweets |-> tweets[k].src]

\* what a step appended to the table or to the document, as mentions
WrittenRows(before, after) ==
  [k \in 1..(Len(after) - Len(before)) |-> after[Len(before) + k].tweets_json]

WrittenEntries(before, after) ==
  [k \in 1..(Len(TweetsOf(after)) - Len(TweetsOf(before))) |->
     TweetsOf(after)[Len(TweetsOf(before)) + k]]

\* s read backwards is t, and s runs from older to newer raw items
OldestFirstOf(s, t) ==
  /\ Len(s) = Len(t)
  /\ \A k \in DOMAIN s : s[k] = t[Len(t) + 1 - k]
  /\ \A k \in DOMAIN s : \A j \in DOMAIN s : k < j => s[k].src < s[j].src

\* C18: the batch of a poll cycle holds the raw results that pass the filter
\* (all of them in the file build, which has no filter), in the order the
\* platform returned them, and what the cycle writes is that batch read
\* backwards, from the oldest mention to the newest.
BatchOrderAndPersistOrder ==
  [][ \A n \in Cycles :
        /\ cyc'[n].pc \in {"persisting", "done", "failed"}
             => SourcesOf(cyc'[n].data.tweets)
                  = IF variant = "store"
                    THEN SelectSeq(cyc'[n].raw, LAMBDA i : i \in MatchedItems)
                    ELSE cyc'[n].raw
        /\ (cyc[n].pc = "persisting" /\ cyc'[n].pc = "done")
             => IF variant = "store"
                THEN OldestFirstOf(WrittenRows(rows, rows'), cyc[n].data.tweets)
                ELSE OldestFirstOf(WrittenEntries(doc, doc'), cyc[n].data.tweets) ]_vars

\* a poll cycle wrote a batch of two mentions
WroteTwoMentions ==
  \E n \in Cycles : cyc[n].pc = "done" /\ Len(cyc[n].data.tweets) = 2

\* both invocations read the same watermark and both searches honoured it.
\* An invocation that writes mentions newer than the watermark it read
\* replaces that watermark, so two invocations that both wrote and had read
\* the same value each read it before the other wrote.
BothReadBeforeEitherWrote ==
  /\ \A n \in Cycles : cyc[n].pc = "done" /\ Honoured(cyc[n].raw, cyc[n].self)
  /\ cyc["A"].self = cyc["B"].self

\* C21 (as stated): when two poll cycles overlap so that both read the
\* watermark before either writes it, no mention identifier is persisted by
\* both cycles.
OverlapPersistsNoDuplicate ==
  BothReadBeforeEitherWrote
    => \A p \in persisted : \A q \in persisted : p.id = q.id => p.by = q.by

(***************************************************************************)
(* Poll cycles one after the other against a faithful upstream (SpecGap):  *)
(* the process was primed when item 1 was the newest mention, items 2 and  *)
(* 3 were posted afterwards, and every search is answered with all the     *)
(* mentions above its since_id, newest first, until the API fails.         *)
(***************************************************************************)
GapItems == {1, 2, 3}

GapPrimed == Items[1].id

\* what recent search holds above since_id, newest first
Upstream(since) ==
  NewestFirst({i \in avail : since = Undef \/ IdGreater(Items[i].id, since)})

UpstreamCalls(since) == {c \in SearchCalls : c.res = Upstream(since)}

InitGap ==
  /\ Defaults
  /\ cred = TRUE
  /\ phase = "running"
  /\ variant \in {"store", "file"}
  /\ avail = GapItems
  /\ filtered = [i \in GapItems |-> Verdict(i)]
  /\ sinceId = GapPrimed
  /\ rows = << >>
  /\ doc \in {DocAbsent, DocGarbage}
  /\ (variant = "store" => doc = DocAbsent)
  /\ ops = 0
  /\ last = NoOp
  /\ persisted = {}
  /\ honest = TRUE
  /\ call = NoCall /\ ret = NoRet /\ spc = "idle"
  /\ cand = NoCand /\ pda = Undef /\ xpc = "idle"

\* one whole pollNewMentions invocation, either build, no other in flight
pollUpstream ==
  /\ phase = "running" /\ ops < MaxOps /\ ~Disabled(pollEnabled)
  /\ \E c \in UpstreamCalls(sinceId) : \E ok \in BOOLEAN :
     \E data \in {SearchOf(c, sinceId)} :
     \E out \in {PersistOf(data, ok)} :
       /\ rows' = out.rows
       /\ doc' = out.doc
       /\ sinceId' = out.sinceId
       /\ ops' = ops + 1
       /\ honest' = (honest /\ Honoured(Yielded(c), sinceId))
       /\ persisted' = persisted \cup Wrote(ops + 1, "poll", data.tweets, out.sink)
       /\ last' = Record("poll", c, data, TRUE, out.sink, FALSE, NoResponse)
  /\ UNCHANGED <<settings, cred, phase, variant, avail, filtered, call, ret, spc, cand, pda,
                 xpc>>

NextGap ==
  \/ pollUpstream
  \/ getMentions

SpecGap == InitGap /\ [][NextGap]_vars

(***************************************************************************)
(* Properties of sequential poll cycles (SpecGap)                          *)
(***************************************************************************)
\* an item the filter lets through, above the primed watermark and not above
\* the current one
BelowWatermark(i) ==
  /\ filtered[i].passes
  /\ BigInt(Items[i].id) > BigInt(GapPrimed)
  /\ BigInt(Items[i].id) <= BigInt(sinceId)

\* C19 (as stated): after any sequence of non-overlapping poll cycles, every
\* qualifying upstream mention above the primed watermark and not above the
\* current watermark has been persisted, pagination failures included.
NoGapBelowWatermark ==
  \A i \in avail : BelowWatermark(i) => \E w \in persisted : w.id = Items[i].id

(***************************************************************************)
(* One call of the URL Pattern Extractor, for every candidate               *)
(***************************************************************************)
\* candidates are scheme \o host \o path; dom says whether the host part is the
\* domain (with or without www., in any case), seg is the first path segment
Schemes ==
  { << >>,
    sHttp \o sColonSlashSlash,
    sHttpsPrefix,
    <<"H", "T", "T", "P", "S">> \o sColonSlashSlash }

Hosts ==
  { [h |-> sDomain, dom |-> TRUE],
    [h |-> sWww \o sDomain, dom |-> TRUE],
    [h |-> <<"P","N","P",".","E","x","c","h","a","n","g","e">>, dom |-> TRUE],
    [h |-> <<"W","w","w",".">> \o sDomain, dom |-> TRUE],
    [h |-> <<"a","p","p",".">> \o sDomain, dom |-> FALSE],
    [h |-> <<"x">> \o sDomain, dom |-> FALSE],
    [h |-> sDomain \o <<".","i","o">>, dom |-> FALSE],
    [h |-> <<"t",".","c","o">>, dom |-> FALSE] }

Paths ==
  { [p |-> << >>, seg |-> << >>],
    [p |-> <<"/">>, seg |-> << >>],
    [p |-> <<"/","M","1">>, seg |-> <<"M","1">>],
    [p |-> <<"/","M","1","/">>, seg |-> <<"M","1">>],
    [p |-> <<"/","M","1","/","x">>, seg |-> <<"M","1">>],
    [p |-> <<"/","M","1","?","r","=","1">>, seg |-> <<"M","1">>],
    [p |-> <<"/","M","1","#","f">>, seg |-> <<"M","1">>],
    [p |-> <<"/","A","b","-","c","_","9">>, seg |-> <<"A","b","-","c","_","9">>],
    [p |-> <<"/","7">>, seg |-> <<"7">>],
    [p |-> <<"/","-","M","1">>, seg |-> <<"-","M","1">>],
    [p |-> <<"/","_","M">>, seg |-> <<"_","M">>],
    [p |-> <<"/","M","!">>, seg |-> <<"M","!">>],
    [p |-> <<"/","M"," ","1">>, seg |-> <<"M"," ","1">>],
    [p |-> <<"/","/","M","1">>, seg |-> << >>],
    [p |-> <<"?","r","=","1">>, seg |-> << >>] }

Candidates ==
  {[scheme |-> sc, host |-> h.h, dom |-> h.dom, path |-> pa.p, seg |-> pa.seg] :
     sc \in Schemes, h \in Hosts, pa \in Paths}

RawUrl(c) == c.scheme \o c.host \o c.path

InitExtract ==
  /\ Defaults
  /\ cred = TRUE
  /\ phase = "running"
  /\ variant = "store"
  /\ avail = {}
  /\ filtered = << >>
  /\ sinceId = Undef
  /\ rows = << >>
  /\ doc = DocAbsent
  /\ ops = 0
  /\ last = NoOp
  /\ persisted = {}
  /\ honest = TRUE
  /\ call = NoCall /\ ret = NoRet /\ spc = "idle"
  /\ cand \in Candidates
  /\ pda = Undef
  /\ xpc = "ready"

RunExtract ==
  /\ xpc = "ready"
  /\ pda' = extractMarketPDA(RawUrl(cand))
  /\ xpc' = "done"
  /\ UNCHANGED <<settings, cred, phase, variant, avail, filtered, sinceId, rows, doc, ops, last,
                 persisted, honest, call, ret, spc, cand>>

NextExtract == RunExtract

SpecExtract == InitExtract /\ [][NextExtract]_vars

(***************************************************************************)
(* Properties of the URL Pattern Extractor (SpecExtract)                   *)
(***************************************************************************)
\* non-empty, starts with an alphanumeric, only characters of [A-Za-z0-9-_]
SegmentOk(seg) ==
  /\ seg # << >>
  /\ IsAlnum(seg[1])
  /\ \A k \in DOMAIN seg : IsAlnum(seg[k]) \/ seg[k] \in {"-", "_"}

\* C8 (as stated): the extractor returns the first path segment exactly when
\* the host is the domain (with or without www., in any case, with or without
\* a scheme) and the segment is well formed, and absence otherwise.
ExtractorIffDomainAndSegment ==
  xpc = "done"
    => pda = IF cand.dom /\ SegmentOk(cand.seg) THEN cand.seg ELSE Undef

====
